---- MODULE Spec2Model ----
(***************************************************************************)
(* A model of the transport core of go-mlflow: mlflow.NewClient and        *)
(* Client.Do of src/mlflow/mlflow.go, with the mlflow.Error type of        *)
(* src/mlflow/errors.go.                                                   *)
(*                                                                         *)
(* Texts (Go strings, response bodies) are sequences of lexical pieces.    *)
(* A response body is a sequence of JSON tokens; a Read of the body hands  *)
(* over some number of whole tokens.  A quoted token such as "\"message\"" *)
(* is the JSON string literal, and its value is the text <<"message">>.    *)
(***************************************************************************)
EXTENDS Integers, Sequences, FiniteSets, TLC

VARIABLES
    baseURL,   \* Client.baseURL, as NewClient left it
    rawBaseURL, \* the base URL string NewClient was given
    pc,        \* where the current call of Do stands
    call,      \* the path, params and body arguments of the call
    ctx,       \* the context of the call
    u,         \* the URL of the request being made
    sink,      \* the response argument of Do (the result sink)
    sink0,     \* the sink as it was when Do was called
    req,       \* the body and header of the request being made
    res,       \* the *http.Response the transport returned
    err,       \* the error Do returns
    attempts,  \* how often the call has executed c.client.Do
    other,     \* a second goroutine's call on the same Client, while the
               \* first one runs: its pc, call, ctx, u, sink, sink0, req, res,
               \* err and attempts
    result     \* what the resource method that made the last call returned

vars ==
    <<baseURL, rawBaseURL, pc, call, ctx, u, sink, sink0, req, res, err, attempts,
      other, result>>

(***************************************************************************)
(* Bounds of the model.                                                    *)
(***************************************************************************)
\* members of the JSON objects the server may answer with
MaxMembers == 3
\* length of the arbitrary token sequences the server may answer with
MaxRaw == 2

(***************************************************************************)
(* JSON tokens.                                                            *)
(***************************************************************************)
LBrace == "{"
RBrace == "}"
Colon == ":"
Comma == ","
Space == " "
\* a byte that begins no JSON value, as in an HTML error page of a proxy
Garbage == "<"
NullTok == "null"
NumTok == "7"
KErrorCode == "\"error_code\""
KMessage == "\"message\""
\* the name of the field StatusCode, in another letter case
KStatusCode == "\"STATUSCODE\""
KExperimentID == "\"experiment_id\""
\* the fields the getters unwrap, and a field of the search results
KExperiment == "\"experiment\""
KRun == "\"run\""
KInfo == "\"info\""
KModel == "\"model\""
KNextPageToken == "\"next_page_token\""
SNotFound == "\"not found\""
SDoesNotExist == "\"RESOURCE_DOES_NOT_EXIST\""

KeyToks ==
    {KErrorCode, KMessage, KStatusCode, KExperimentID,
     KExperiment, KRun, KInfo, KModel, KNextPageToken}
StringToks == KeyToks \cup {SNotFound, SDoesNotExist}
ScalarToks == StringToks \cup {NumTok, NullTok}
Tokens == ScalarToks \cup {LBrace, RBrace, Colon, Comma, Space, Garbage}

\* the Go string a JSON string literal decodes to, as a text
Unquote(t) ==
    CASE t = KErrorCode -> <<"error_code">>
      [] t = KMessage -> <<"message">>
      [] t = KStatusCode -> <<"STATUSCODE">>
      [] t = KExperimentID -> <<"experiment_id">>
      [] t = KExperiment -> <<"experiment">>
      [] t = KRun -> <<"run">>
      [] t = KInfo -> <<"info">>
      [] t = KModel -> <<"model">>
      [] t = KNextPageToken -> <<"next_page_token">>
      [] t = SNotFound -> <<"not found">>
      [] t = SDoesNotExist -> <<"RESOURCE_DOES_NOT_EXIST">>

\* the integer a JSON number decodes to
NumVal(t) == CASE t = NumTok -> 7

(***************************************************************************)
(* encoding/json's Decoder, as Do uses it: json.NewDecoder(r).Decode(v).   *)
(* readValue scans the buffered bytes for the end of the first JSON value  *)
(* and refills the buffer with one Read of r whenever the value is not     *)
(* complete yet.                                                           *)
(***************************************************************************)
RECURSIVE Scan(_, _, _, _, _)
\* The scanner over b from token i on, in state st at nesting depth d;
\* first is the index of the first token of the value (0: none seen).
\*   kind "value":      a complete value b[first..last]; need tokens had to be
\*                      buffered to see it end (a scalar at the top level ends
\*                      at the byte after it, or at end of input)
\*   kind "syntax":     a SyntaxError at token need
\*   kind "eof":        io.EOF, the input holds nothing but white space
\*   kind "unexpected": io.ErrUnexpectedEOF, the input ends inside a value
Scan(b, i, st, d, first) ==
    IF i > Len(b)
    THEN IF st = "endTop"
         THEN [kind |-> "value", first |-> first, last |-> first, need |-> Len(b), toEOF |-> TRUE]
         ELSE [kind |-> IF st = "top" THEN "eof" ELSE "unexpected",
               first |-> 0, last |-> 0, need |-> Len(b), toEOF |-> TRUE]
    ELSE LET t == b[i]
             bad == [kind |-> "syntax", first |-> 0, last |-> 0, need |-> i, toEOF |-> FALSE]
         IN  IF st = "endTop"
             THEN [kind |-> "value", first |-> first, last |-> first, need |-> i, toEOF |-> FALSE]
             ELSE IF t = Space
             THEN Scan(b, i + 1, st, d, first)
             ELSE CASE st = "top" ->
                         IF t = LBrace THEN Scan(b, i + 1, "keyOrEnd", 1, i)
                         ELSE IF t \in ScalarToks THEN Scan(b, i + 1, "endTop", 0, i)
                         ELSE bad
                    [] st = "keyOrEnd" ->
                         IF t \in StringToks THEN Scan(b, i + 1, "colon", d, first)
                         ELSE IF t = RBrace
                         THEN IF d = 1
                              THEN [kind |-> "value", first |-> first, last |-> i, need |-> i, toEOF |-> FALSE]
                              ELSE Scan(b, i + 1, "commaOrEnd", d - 1, first)
                         ELSE bad
                    [] st = "key" ->
                         IF t \in StringToks THEN Scan(b, i + 1, "colon", d, first) ELSE bad
                    [] st = "colon" ->
                         IF t = Colon THEN Scan(b, i + 1, "val", d, first) ELSE bad
                    [] st = "val" ->
                         IF t \in ScalarToks THEN Scan(b, i + 1, "commaOrEnd", d, first)
                         ELSE IF t = LBrace THEN Scan(b, i + 1, "keyOrEnd", d + 1, first)
                         ELSE bad
                    [] st = "commaOrEnd" ->
                         IF t = Comma THEN Scan(b, i + 1, "key", d, first)
                         ELSE IF t = RBrace
                         THEN IF d = 1
                              THEN [kind |-> "value", first |-> first, last |-> i, need |-> i, toEOF |-> FALSE]
                              ELSE Scan(b, i + 1, "commaOrEnd", d - 1, first)
                         ELSE bad

readValue(b) == Scan(b, 1, "top", 0, 0)

\* How many tokens of b the decoder may have taken from the reader when
\* Decode returns: the Read that delivered token need may have delivered any
\* number of the tokens after it as well; at end of input everything was read.
Consumed(b) ==
    LET s == readValue(b)
    IN  IF s.toEOF THEN {Len(b)} ELSE s.need .. Len(b)

(***************************************************************************)
(* The struct types Do decodes into.  A key of a JSON object selects the   *)
(* field whose JSON name equals it, letter case ignored; a field without a *)
(* json tag goes by its Go name.                                           *)
(***************************************************************************)
\* a key with its letters folded to lower case
Fold(t) ==
    CASE t = KErrorCode -> "error_code"
      [] t = KMessage -> "message"
      [] t = KStatusCode -> "statuscode"
      [] t = KExperimentID -> "experiment_id"
      [] t = KExperiment -> "experiment"
      [] t = KRun -> "run"
      [] t = KInfo -> "info"
      [] t = KModel -> "model"
      [] t = KNextPageToken -> "next_page_token"
      [] t = SNotFound -> "not found"
      [] t = SDoesNotExist -> "resource_does_not_exist"

\* type Error struct: its fields by folded JSON name
ErrorFields ==
    {[json |-> "statuscode", go |-> "StatusCode", kind |-> "int"],
     [json |-> "error_code", go |-> "ErrorCode", kind |-> "string"],
     [json |-> "message", go |-> "Message", kind |-> "string"]}

\* the result struct as it would be without its json tag: the field goes by
\* its Go name
CreateFieldsUntagged ==
    {[json |-> "experimentid", go |-> "ExperimentID", kind |-> "string"]}
\* the result struct of ExperimentService.Create
CreateFields ==
    {[json |-> "experiment_id", go |-> "ExperimentID", kind |-> "string"]}

\* the result struct of a getter, its one field a pointer named by the
\* key wrapper
WrapperFields(wrapper) ==
    {[json |-> Fold(wrapper), go |-> "Ptr", kind |-> "ptr"]}

\* type RunSearchResults struct, without its list of runs
SearchFields ==
    {[json |-> "next_page_token", go |-> "NextPageToken", kind |-> "string"]}

FieldsOf(typ) ==
    CASE typ = "Error" -> ErrorFields
      [] typ = "Create" -> CreateFields
      [] typ = "Search" -> SearchFields
      [] OTHER -> WrapperFields(typ)

\* the index of the brace that closes the object open at depth d before b[i]
RECURSIVE EndOfObject(_, _, _)
EndOfObject(b, i, d) ==
    IF b[i] = LBrace THEN EndOfObject(b, i + 1, d + 1)
    ELSE IF b[i] = RBrace
    THEN IF d = 1 THEN i ELSE EndOfObject(b, i + 1, d - 1)
    ELSE EndOfObject(b, i + 1, d)

\* what stands for a value that is itself an object
NestedObject == "{}"

\* the tokens of b[from..to] that are keys and values, in order; a value
\* that is an object is passed over as a whole
RECURSIVE Members(_, _, _)
Members(b, from, to) ==
    IF from > to THEN <<>>
    ELSE IF b[from] \in ScalarToks
         THEN <<b[from]>> \o Members(b, from + 1, to)
         ELSE IF b[from] = LBrace
         THEN <<NestedObject>> \o Members(b, EndOfObject(b, from + 1, 1) + 1, to)
         ELSE Members(b, from + 1, to)

\* d.object: the members kv = <<k1, v1, k2, v2, ...>> stored into v one after
\* the other.  A value of the wrong type leaves its field alone and is
\* remembered as the error (the first one is kept); null has no effect but
\* on a pointer, which it sets to nil; a key that names no field is skipped.
\* An object stored through a pointer makes the pointer non-nil; the fields
\* of what it points to are not followed.
RECURSIVE Store(_, _, _, _)
Store(kv, v, e, typ) ==
    IF Len(kv) < 2 THEN [v |-> v, err |-> e]
    ELSE LET k == kv[1]
             x == kv[2]
             rest == SubSeq(kv, 3, Len(kv))
             fs == {f \in FieldsOf(typ) : f.json = Fold(k)}
         IN  IF fs = {} THEN Store(rest, v, e, typ)
             ELSE LET f == CHOOSE g \in fs : TRUE
                  IN  IF x = NullTok
                      THEN Store(rest, IF f.kind = "ptr" THEN [v EXCEPT ![f.go] = "nil"] ELSE v,
                                 e, typ)
                      ELSE IF f.kind = "ptr" /\ x = NestedObject
                      THEN Store(rest, [v EXCEPT ![f.go] = "struct"], e, typ)
                      ELSE IF f.kind = "string" /\ x \in StringToks
                      THEN Store(rest, [v EXCEPT ![f.go] = Unquote(x)], e, typ)
                      ELSE IF f.kind = "int" /\ x = NumTok
                      THEN Store(rest, [v EXCEPT ![f.go] = NumVal(x)], e, typ)
                      ELSE Store(rest, v, IF e = "nil" THEN "UnmarshalTypeError" ELSE e, typ)

\* d.unmarshal of the value b[first..last] into the struct v of type typ
Unmarshal(b, first, last, v, typ) ==
    IF b[first] = LBrace
    THEN Store(Members(b, first + 1, last - 1), v, "nil", typ)
    ELSE IF b[first] = NullTok
    THEN [v |-> v, err |-> "nil"]
    ELSE [v |-> v, err |-> "UnmarshalTypeError"]

\* Decode after dec.readValue() has returned s: the error of the read, or
\* the value unmarshalled
DecodeValue(b, s, v, typ) ==
    CASE s.kind = "value" -> Unmarshal(b, s.first, s.last, v, typ)
      [] s.kind = "syntax" -> [v |-> v, err |-> "SyntaxError"]
      [] s.kind = "eof" -> [v |-> v, err |-> "EOF"]
      [] s.kind = "unexpected" -> [v |-> v, err |-> "ErrUnexpectedEOF"]

\* json.NewDecoder(r).Decode(&v) on a reader that holds b
Decode(b, v, typ) == DecodeValue(b, readValue(b), v, typ)

(***************************************************************************)
(* URLs.  A URL string is a sequence of characters; net/url's Parse and    *)
(* ResolveReference are modelled on the characters the model's URL strings *)
(* are made of.  A parsed path is kept as strings.Split(path, "/"): the    *)
(* path "/x/" is <<"", "x", "">>, the empty path is <<"">>.                *)
(***************************************************************************)
Letters ==
    {"a", "b", "c", "d", "e", "f", "g", "h", "i", "j", "k", "l", "m", "n", "o",
     "p", "q", "r", "s", "t", "u", "v", "w", "x", "y", "z"}

\* the first index of character c in s, 0 when s has none
RECURSIVE IndexFrom(_, _, _)
IndexFrom(s, c, i) ==
    IF i > Len(s) THEN 0
    ELSE IF s[i] = c THEN i ELSE IndexFrom(s, c, i + 1)

Index(s, c) == IndexFrom(s, c, 1)

\* the last index of character c in s, 0 when s has none
RECURSIVE LastIndexFrom(_, _, _)
LastIndexFrom(s, c, i) ==
    IF i < 1 THEN 0
    ELSE IF s[i] = c THEN i ELSE LastIndexFrom(s, c, i - 1)

LastIndex(s, c) == LastIndexFrom(s, c, Len(s))

Count(s, c) == Cardinality({i \in 1..Len(s) : s[i] = c})

HasPrefix2(s, c) == Len(s) >= 2 /\ s[1] = c /\ s[2] = c

\* the characters of s as one string
RECURSIVE Str(_)
Str(s) == IF s = <<>> THEN "" ELSE s[1] \o Str(Tail(s))

\* strings.Split(s, "/"), each part a string
RECURSIVE SplitPath(_)
SplitPath(s) ==
    LET i == Index(s, "/")
    IN  IF i = 0 THEN <<Str(s)>>
        ELSE <<Str(SubSeq(s, 1, i - 1))>> \o SplitPath(SubSeq(s, i + 1, Len(s)))

\* url.getScheme: [ok, scheme, rest]
RECURSIVE getSchemeFrom(_, _)
getSchemeFrom(s, i) ==
    IF i > Len(s) THEN [ok |-> TRUE, scheme |-> <<>>, rest |-> s]
    ELSE IF s[i] \in Letters THEN getSchemeFrom(s, i + 1)
    ELSE IF s[i] = "." \/ s[i] = "-"
         THEN IF i = 1 THEN [ok |-> TRUE, scheme |-> <<>>, rest |-> s]
              ELSE getSchemeFrom(s, i + 1)
    ELSE IF s[i] = ":"
         THEN IF i = 1 THEN [ok |-> FALSE, scheme |-> <<>>, rest |-> s]
              ELSE [ok |-> TRUE, scheme |-> SubSeq(s, 1, i - 1), rest |-> SubSeq(s, i + 1, Len(s))]
    ELSE [ok |-> TRUE, scheme |-> <<>>, rest |-> s]

getScheme(s) == getSchemeFrom(s, 1)

\* url.parseAuthority: user@host, the port after the host's last colon must
\* be made of digits (the model's URL strings hold none, so it must be empty)
parseAuthority(a) ==
    LET at == LastIndex(a, "@")
        host == SubSeq(a, at + 1, Len(a))
        colon == LastIndex(host, ":")
    IN  [ok |-> colon = 0 \/ colon = Len(host),
         User |-> IF at = 0 THEN "" ELSE Str(SubSeq(a, 1, at - 1)),
         Host |-> Str(host)]

NoURL ==
    [Scheme |-> "", Opaque |-> "", User |-> "", Host |-> "", Path |-> <<"">>,
     ForceQuery |-> FALSE, RawQuery |-> "", Fragment |-> ""]

\* the end of url.parse: the authority auth, if the URL has one, and the
\* path go into url
setAuthority(url, hasAuth, auth, path) ==
    IF hasAuth /\ ~auth.ok THEN [ok |-> FALSE, url |-> NoURL]
    ELSE [ok |-> TRUE,
          url |-> [url EXCEPT !.User = IF hasAuth THEN auth.User ELSE "",
                              !.Host = IF hasAuth THEN auth.Host ELSE "",
                              !.Path = SplitPath(path)]]

\* url.parse after the scheme and the query are cut off: rest is what is
\* left, an opaque part, or an authority and a path
parseRest(scheme, rest, url) ==
    LET rooted == Len(rest) >= 1 /\ rest[1] = "/"
        slash1 == Index(rest, "/")
        seg1 == IF slash1 = 0 THEN rest ELSE SubSeq(rest, 1, slash1 - 1)
        hasAuth == HasPrefix2(rest, "/")
                   /\ (scheme # <<>> \/ ~(Len(rest) >= 3 /\ rest[3] = "/"))
        afterAuth == SubSeq(rest, 3, Len(rest))
        slash2 == Index(afterAuth, "/")
        authority == IF slash2 = 0 THEN afterAuth ELSE SubSeq(afterAuth, 1, slash2 - 1)
        path == IF ~hasAuth THEN rest
                ELSE IF slash2 = 0 THEN <<>> ELSE SubSeq(afterAuth, slash2, Len(afterAuth))
    IN  IF ~rooted /\ scheme # <<>>
        THEN [ok |-> TRUE, url |-> [url EXCEPT !.Opaque = Str(rest)]]
        ELSE IF ~rooted /\ Index(seg1, ":") # 0
        THEN [ok |-> FALSE, url |-> NoURL]
        ELSE setAuthority(url, hasAuth, parseAuthority(authority), path)

\* url.parse after getScheme has returned sch: the query is cut off
parseQuery(sch, frag) ==
    LET r0 == sch.rest
        force == Len(r0) >= 1 /\ r0[Len(r0)] = "?" /\ Count(r0, "?") = 1
        q == Index(r0, "?")
        rest == IF force THEN SubSeq(r0, 1, Len(r0) - 1)
                ELSE IF q = 0 THEN r0 ELSE SubSeq(r0, 1, q - 1)
        query == IF force \/ q = 0 THEN <<>> ELSE SubSeq(r0, q + 1, Len(r0))
    IN  IF ~sch.ok THEN [ok |-> FALSE, url |-> NoURL]
        ELSE parseRest(sch.scheme, rest,
                       [NoURL EXCEPT !.Scheme = Str(sch.scheme), !.ForceQuery = force,
                                     !.RawQuery = Str(query), !.Fragment = Str(frag)])

\* url.Parse(rawURL): [ok, url]
ParseURL(rawURL) ==
    LET hash == Index(rawURL, "#")
        noFrag == IF hash = 0 THEN rawURL ELSE SubSeq(rawURL, 1, hash - 1)
        frag == IF hash = 0 THEN <<>> ELSE SubSeq(rawURL, hash + 1, Len(rawURL))
    IN  parseQuery(getScheme(noFrag), frag)

\* the path parts as a path string has them: a non-empty sequence
PathParts(l) == IF l = <<>> THEN <<"">> ELSE l

\* the loop of url.resolvePath over the elements of the full path: dst holds
\* what was written after the leading '/', as the parts between its slashes
\* (<<>>: nothing written and first still true)
RECURSIVE removeDots(_, _)
removeDots(elems, dst) ==
    IF elems = <<>> THEN dst
    ELSE LET elem == Head(elems)
         IN  IF elem = "."
             THEN removeDots(Tail(elems), IF dst = <<>> THEN <<"">> ELSE dst)
             ELSE IF elem = ".."
             THEN removeDots(Tail(elems),
                             IF Len(dst) <= 1 THEN <<>> ELSE SubSeq(dst, 1, Len(dst) - 1))
             ELSE removeDots(Tail(elems), Append(dst, elem))

\* the end of url.resolvePath: dst is what the loop over the elements of
\* full has written
cleanPath(full, dst) ==
    LET last == full[Len(full)]
        out == IF last = "." \/ last = ".."
               THEN IF dst = <<>> THEN <<"", "">> ELSE Append(dst, "")
               ELSE dst
    IN  IF full = <<"">> THEN <<"">>
        ELSE IF Len(out) >= 2 /\ out[1] = "" THEN out
        ELSE <<"">> \o PathParts(out)

\* url.resolvePath(base, ref) on split paths
resolvePath(base, ref) ==
    LET full == IF ref = <<"">> THEN base
                ELSE IF ref[1] # "" \/ Len(ref) = 1
                THEN SubSeq(base, 1, Len(base) - 1) \o ref
                ELSE ref
    IN  cleanPath(full, removeDots(full, <<>>))

\* URL.ResolveReference
ResolveReference(base, ref) ==
    LET url == [ref EXCEPT !.Scheme = IF ref.Scheme = "" THEN base.Scheme ELSE ref.Scheme]
        inherit == ref.Path = <<"">> /\ ~ref.ForceQuery /\ ref.RawQuery = ""
    IN  IF ref.Scheme # "" \/ ref.Host # "" \/ ref.User # ""
        THEN [url EXCEPT !.Path = resolvePath(ref.Path, <<"">>)]
        ELSE IF ref.Path = <<"">> /\ base.Opaque # ""
        THEN [url EXCEPT !.Opaque = base.Opaque,
                         !.RawQuery = IF inherit THEN base.RawQuery ELSE ref.RawQuery,
                         !.Fragment = IF inherit /\ ref.Fragment = ""
                                      THEN base.Fragment ELSE ref.Fragment]
        ELSE [url EXCEPT !.Host = base.Host,
                         !.User = base.User,
                         !.RawQuery = IF inherit THEN base.RawQuery ELSE ref.RawQuery,
                         !.Fragment = IF inherit /\ ref.Fragment = ""
                                      THEN base.Fragment ELSE ref.Fragment,
                         !.Path = resolvePath(base.Path, ref.Path)]

\* URL.Parse after url.Parse has returned r: the reference is resolved
resolveParsed(base, r) ==
    IF r.ok THEN [ok |-> TRUE, url |-> ResolveReference(base, r.url)] ELSE r

\* c.baseURL.Parse(path): [ok, url]
ParseRef(base, path) == resolveParsed(base, ParseURL(path))

\* the fixed API root NewClient appends, split at its slashes
APIRoot == <<"api", "2.0", "mlflow", "">>

HasSuffixSlash(path) == Len(path) >= 2 /\ path[Len(path)] = ""

\* the normalisation without the test for a trailing slash
NormalizeBaseAlwaysSlash(parsedURL) == [parsedURL EXCEPT !.Path = @ \o APIRoot]

\* NewClient's normalisation of the parsed base URL
NormalizeBase(parsedURL) ==
    LET slashed == IF HasSuffixSlash(parsedURL.Path) THEN parsedURL.Path
                   ELSE Append(parsedURL.Path, "")
    IN  [parsedURL EXCEPT !.Path = SubSeq(slashed, 1, Len(slashed) - 1) \o APIRoot]

\* NewClient without the return on the error of url.Parse
newClientIgnoringError(r) == [ok |-> TRUE, baseURL |-> NormalizeBase(r.url)]

\* NewClient after url.Parse has returned r
newClientOf(r) ==
    IF r.ok THEN [ok |-> TRUE, baseURL |-> NormalizeBase(r.url)]
    ELSE [ok |-> FALSE, baseURL |-> NoURL]

\* NewClient(httpClient, baseURL): [ok, baseURL]
NewClient(raw) == newClientOf(ParseURL(raw))

(***************************************************************************)
(* The inputs of the model: what callers pass to Do and what the server    *)
(* answers.                                                                *)
(***************************************************************************)
\* status codes on both sides of 400 and of 600
Statuses == {200, 399, 400, 502, 600}

\* the members an answered JSON object is made of
Pairs ==
    {<<KErrorCode, SDoesNotExist>>,
     <<KMessage, SNotFound>>, <<KMessage, NumTok>>,
     <<KStatusCode, NumTok>>,
     <<KExperimentID, SNotFound>>, <<KExperimentID, NumTok>>}

\* the tokens of the members ms, commas between them
RECURSIVE MemberToks(_)
MemberToks(ms) ==
    IF ms = <<>> THEN <<>>
    ELSE <<ms[1][1], Colon, ms[1][2]>>
         \o (IF Len(ms) = 1 THEN <<>> ELSE <<Comma>> \o MemberToks(Tail(ms)))

Object(ms) == <<LBrace>> \o MemberToks(ms) \o <<RBrace>>

Objects == {Object(ms) : ms \in UNION {[1..k -> Pairs] : k \in 0..MaxMembers}}

\* an object as it stands, followed by white space or by other bytes, after
\* white space, and cut short
Variants(o) ==
    {o, o \o <<Space>>, o \o <<Garbage>>, <<Space>> \o o, SubSeq(o, 1, Len(o) - 1)}

RawTokens ==
    {LBrace, RBrace, Colon, Comma, Space, Garbage, NullTok, NumTok, KMessage, SNotFound}

RawBodies == UNION {[1..k -> RawTokens] : k \in 0..MaxRaw}

Bodies == RawBodies \cup UNION {Variants(o) : o \in Objects}

NilSink == [kind |-> "nil"]
\* an io.Writer; a broken one fails every Write
WriterSink(broken) == [kind |-> "Writer", broken |-> broken, written |-> <<>>]
\* a pointer to the result struct of ExperimentService.Create
StructSink(id) == [kind |-> "Struct", typ |-> "Create", val |-> [ExperimentID |-> id]]

Sinks ==
    {NilSink, WriterSink(FALSE), WriterSink(TRUE), StructSink(<<>>), StructSink(<<"old">>)}

\* the base URLs clients are made with: "http://h", "http://h/",
\* "http://h/x" and "http://h/x/", and with the credentials of a user as in
\* the README, "http://u:w@h"
BaseURLs ==
    {<<"h", "t", "t", "p", ":", "/", "/", "u", ":", "w", "@", "h">>,
     <<"h", "t", "t", "p", ":", "/", "/", "h">>,
     <<"h", "t", "t", "p", ":", "/", "/", "h", "/">>,
     <<"h", "t", "t", "p", ":", "/", "/", "h", "/", "x">>,
     <<"h", "t", "t", "p", ":", "/", "/", "h", "/", "x", "/">>}

\* the base URL of the README's example client: "http://h"
LocalBase == <<"h", "t", "t", "p", ":", "/", "/", "h">>

\* params, a url.Values: nil, or the (key, value) pairs it holds, each a
\* string of characters
NilParams == [nil |-> TRUE, pairs |-> <<>>]
Values(pairs) == [nil |-> FALSE, pairs |-> pairs]

ParamSets ==
    {NilParams, Values(<<>>),
     Values(<<[key |-> <<"i", "d">>, value |-> <<"1">>]>>),
     Values(<<[key |-> <<"i", "d">>, value |-> <<"a", " ", "/">>],
              [key |-> <<"k">>, value |-> <<>>]>>)}

\* body, the payload of the request: nil, a nil pointer to an options struct,
\* a pointer to the options of ExperimentService.Delete, or a value json
\* cannot marshal (a channel, a function)
NilBody == [kind |-> "nil"]
Payloads ==
    {NilBody, [kind |-> "nilptr"], [kind |-> "chan"],
     [kind |-> "struct", val |-> [ExperimentID |-> <<>>]],
     [kind |-> "struct", val |-> [ExperimentID |-> <<"not found">>]]}

Call(path, params, body) == [path |-> path, params |-> params, body |-> body]

\* the calls of the main specification: one that is sent, "a" without
\* params or payload; one whose path ":" is no URL; one whose payload cannot
\* be marshalled
DoCalls ==
    {Call(<<"a">>, NilParams, NilBody),
     Call(<<":">>, NilParams, NilBody),
     Call(<<"a">>, NilParams, [kind |-> "chan"])}

NoReq == [HasBody |-> FALSE, Body |-> <<>>, ContentType |-> ""]

NoRes == [StatusCode |-> 0, Body |-> <<>>, closed |-> FALSE]
NoErr == [kind |-> "nil"]

(***************************************************************************)
(* Client.Do                                                               *)
(***************************************************************************)
\* url.QueryEscape, character by character
RECURSIVE QueryEscape(_)
QueryEscape(s) ==
    IF s = <<>> THEN ""
    ELSE (CASE s[1] = " " -> "+"
            [] s[1] = "/" -> "%2F"
            [] s[1] = "?" -> "%3F"
            [] s[1] = "#" -> "%23"
            [] s[1] = "&" -> "%26"
            [] s[1] = "=" -> "%3D"
            [] OTHER -> s[1]) \o QueryEscape(Tail(s))

\* url.Values.Encode over pairs sorted by key: "k=v&k=v"
RECURSIVE Encode(_)
Encode(pairs) ==
    IF pairs = <<>> THEN ""
    ELSE QueryEscape(pairs[1].key) \o "=" \o QueryEscape(pairs[1].value)
         \o (IF Len(pairs) = 1 THEN "" ELSE "&" \o Encode(Tail(pairs)))

\* the JSON string literal of a text
Quote(x) == CHOOSE t \in StringToks : Unquote(t) = x

\* the tokens of a JSON array
LBracket == "["
RBracket == "]"

\* a field of an options struct, tagged omitempty: a string, an integer (or
\* a float64 that holds a whole number), or a list of pointers to RunTag,
\* LoggedModelTag or LoggedModelParameter
StrField(key, x) ==
    [key |-> key, typ |-> "string", omitempty |-> TRUE, str |-> x, int |-> 0, tags |-> <<>>]
IntField(key, n) ==
    [key |-> key, typ |-> "int", omitempty |-> TRUE, str |-> "", int |-> n, tags |-> <<>>]
TagsField(key, ts) ==
    [key |-> key, typ |-> "tags", omitempty |-> TRUE, str |-> "", int |-> 0, tags |-> ts]
\* the field f with a tag that has no omitempty
Always(f) == [f EXCEPT !.omitempty = FALSE]

\* encoding/json's isEmptyValue: what omitempty leaves out
isEmptyValue(f) ==
    CASE f.typ = "string" -> f.str = ""
      [] f.typ = "int" -> f.int = 0
      [] f.typ = "tags" -> f.tags = <<>>

\* type RunTag struct, runs.go:63-66, and the LoggedModelTag and
\* LoggedModelParameter of logged_models.go:78-91 alike
RunTagFields(t) == <<StrField("\"key\"", t.Key), StrField("\"value\"", t.Value)>>

\* json.Marshal of a struct given by its fields, in their order, the empty
\* ones left out
RECURSIVE MarshalStruct(_)
RECURSIVE MarshalList(_)
RECURSIVE MarshalMembers(_)
MarshalValue(f) ==
    CASE f.typ = "string" -> <<"\"" \o f.str \o "\"">>
      [] f.typ = "int" -> <<ToString(f.int)>>
      [] f.typ = "tags" -> <<LBracket>> \o MarshalList(f.tags) \o <<RBracket>>

MarshalMembers(fs) ==
    IF fs = <<>> THEN <<>>
    ELSE <<fs[1].key, Colon>> \o MarshalValue(fs[1])
         \o (IF Len(fs) = 1 THEN <<>> ELSE <<Comma>> \o MarshalMembers(Tail(fs)))

MarshalList(ts) ==
    IF ts = <<>> THEN <<>>
    ELSE MarshalStruct(RunTagFields(ts[1]))
         \o (IF Len(ts) = 1 THEN <<>> ELSE <<Comma>> \o MarshalList(Tail(ts)))

MarshalStruct(fs) ==
    <<LBrace>>
    \o MarshalMembers(SelectSeq(fs, LAMBDA f : ~(f.omitempty /\ isEmptyValue(f))))
    \o <<RBrace>>

\* json.Marshal of a payload
Marshal(body) ==
    CASE body.kind = "nilptr" -> <<NullTok>>
      [] body.kind = "opts" -> MarshalStruct(body.fields)
      [] body.kind = "struct" ->
            IF body.val.ExperimentID = <<>> THEN <<LBrace, RBrace>>
            ELSE <<LBrace, KExperimentID, Colon, Quote(body.val.ExperimentID), RBrace>>

\* the encoder as it would be with the error of json.Marshal dropped: the
\* request goes out with an empty body
encodeBodyIgnoringError(body) ==
    IF body.kind = "nil" THEN [ok |-> TRUE, has |-> FALSE, bytes |-> <<>>]
    ELSE IF body.kind = "chan" THEN [ok |-> TRUE, has |-> TRUE, bytes |-> <<>>]
    ELSE [ok |-> TRUE, has |-> TRUE, bytes |-> Marshal(body)]
\* the encoder as it would be if it looked through the interface and took a
\* nil pointer for an absent payload
encodeBodyNilPointerAbsent(body) ==
    IF body.kind = "nil" \/ body.kind = "nilptr"
    THEN [ok |-> TRUE, has |-> FALSE, bytes |-> <<>>]
    ELSE IF body.kind = "chan" THEN [ok |-> FALSE, has |-> FALSE, bytes |-> <<>>]
    ELSE [ok |-> TRUE, has |-> TRUE, bytes |-> Marshal(body)]
\* mlflow.go:120-131: [ok, has, bytes]; has is false when the reader is nil
encodeBody(body) ==
    IF body.kind = "nil" THEN [ok |-> TRUE, has |-> FALSE, bytes |-> <<>>]
    ELSE IF body.kind = "chan" THEN [ok |-> FALSE, has |-> FALSE, bytes |-> <<>>]
    ELSE [ok |-> TRUE, has |-> TRUE, bytes |-> Marshal(body)]

\* mlflow.go:72-74: the query of the parsed URL r is set from params
setRawQuery(r, params) ==
    IF r.ok /\ ~params.nil
    THEN [r EXCEPT !.url.RawQuery = Encode(params.pairs)]
    ELSE r

\* mlflow.go:67-74: the URL of the request, [ok, url]
RequestURL(base, path, params) == setRawQuery(ParseRef(base, path), params)

\* the branch as it would be with an upper limit of 600 on the error range
IsAPIErrorBelow600(status) == status >= 400 /\ status < 600

\* mlflow.go:95, the branch to the API-error path
IsAPIError(status) == status >= 400

\* mlflow.go:98-102, the fallback after Decode has returned d: what is left
\* of the body b, of which the decoder took c tokens, becomes the message
fallbackMessage(d, b, c) ==
    IF d.err # "nil"
    THEN [d.v EXCEPT !.Message = SubSeq(b, c + 1, Len(b))]
    ELSE d.v

\* mlflow.go:96-102, the Error built from a response of this status whose
\* body is b, the decoder having taken c tokens of b when it returned
DecodeErrorBody(status, b, c) ==
    fallbackMessage(Decode(b, [StatusCode |-> status, ErrorCode |-> <<>>,
                               Message |-> <<>>], "Error"), b, c)

\* the switch without the line that turns io.EOF into nil
DecodeResultBodyKeepsEOF(v, b) ==
    CASE v.kind = "nil" -> [sink |-> v, err |-> NoErr]
      [] v.kind = "Writer" ->
            IF v.broken /\ b # <<>>
            THEN [sink |-> v, err |-> [kind |-> "io", what |-> "write"]]
            ELSE [sink |-> [v EXCEPT !.written = @ \o b], err |-> NoErr]
      [] v.kind = "Struct" ->
            LET d == Decode(b, v.val, v.typ)
            IN  [sink |-> [v EXCEPT !.val = d.v],
                 err |-> IF d.err = "nil" THEN NoErr
                         ELSE [kind |-> "json", what |-> d.err]]

\* the switch with io.ErrUnexpectedEOF ignored like io.EOF
DecodeResultBodyIgnoresUnexpectedEOF(v, b) ==
    CASE v.kind = "nil" -> [sink |-> v, err |-> NoErr]
      [] v.kind = "Writer" ->
            IF v.broken /\ b # <<>>
            THEN [sink |-> v, err |-> [kind |-> "io", what |-> "write"]]
            ELSE [sink |-> [v EXCEPT !.written = @ \o b], err |-> NoErr]
      [] v.kind = "Struct" ->
            LET d == Decode(b, v.val, v.typ)
            IN  [sink |-> [v EXCEPT !.val = d.v],
                 err |-> IF d.err \in {"EOF", "ErrUnexpectedEOF", "nil"} THEN NoErr
                         ELSE [kind |-> "json", what |-> d.err]]

\* the switch without its io.Writer case: a writer is decoded into like any
\* other value, which json refuses for a value that is no pointer to data
DecodeResultBodyNoWriterCase(v, b) ==
    CASE v.kind = "nil" -> [sink |-> v, err |-> NoErr]
      [] v.kind = "Writer" ->
            LET s == readValue(b)
            IN  [sink |-> v,
                 err |-> IF s.kind = "eof" THEN NoErr
                         ELSE [kind |-> "json", what |-> "UnmarshalTypeError"]]
      [] v.kind = "Struct" ->
            LET d == Decode(b, v.val, v.typ)
            IN  [sink |-> [v EXCEPT !.val = d.v],
                 err |-> IF d.err = "EOF" \/ d.err = "nil" THEN NoErr
                         ELSE [kind |-> "json", what |-> d.err]]

\* the switch without its nil case: Decode(nil) fails with an
\* InvalidUnmarshalError once a value has been read
DecodeResultBodyNoNilCase(v, b) ==
    CASE v.kind = "nil" ->
            LET s == readValue(b)
            IN  [sink |-> v,
                 err |-> IF s.kind = "eof" THEN NoErr
                         ELSE [kind |-> "json", what |-> "InvalidUnmarshalError"]]
      [] v.kind = "Writer" ->
            IF v.broken /\ b # <<>>
            THEN [sink |-> v, err |-> [kind |-> "io", what |-> "write"]]
            ELSE [sink |-> [v EXCEPT !.written = @ \o b], err |-> NoErr]
      [] v.kind = "Struct" ->
            LET d == Decode(b, v.val, v.typ)
            IN  [sink |-> [v EXCEPT !.val = d.v],
                 err |-> IF d.err = "EOF" \/ d.err = "nil" THEN NoErr
                         ELSE [kind |-> "json", what |-> d.err]]

\* mlflow.go:106-115, the switch on the result sink v over a body b:
\* [sink, err]
DecodeResultBody(v, b) ==
    CASE v.kind = "nil" -> [sink |-> v, err |-> NoErr]
      [] v.kind = "Writer" ->
            IF v.broken /\ b # <<>>
            THEN [sink |-> v, err |-> [kind |-> "io", what |-> "write"]]
            ELSE [sink |-> [v EXCEPT !.written = @ \o b], err |-> NoErr]
      [] v.kind = "Struct" ->
            LET d == Decode(b, v.val, v.typ)
            IN  [sink |-> [v EXCEPT !.val = d.v],
                 err |-> IF d.err = "EOF" \/ d.err = "nil" THEN NoErr
                         ELSE [kind |-> "json", what |-> d.err]]

\* json.NewDecoder(r).Decode(&v) on a reader that hands over b and then
\* fails with the error of the cancelled context: readValue returns that
\* error where it would have needed the end of the input
DecodeCancelled(b, v, typ) ==
    IF readValue(b).toEOF THEN [v |-> v, err |-> "Canceled"] ELSE Decode(b, v, typ)

\* mlflow.go:96-102 on a body stream cut by the cancelled context
DecodeErrorBodyCancelled(status, b, c) ==
    fallbackMessage(DecodeCancelled(b, [StatusCode |-> status, ErrorCode |-> <<>>,
                                        Message |-> <<>>], "Error"), b, c)

\* mlflow.go:106-115 on a body stream cut by the cancelled context: the
\* writer has received what was delivered when io.Copy fails
DecodeResultBodyCancelled(v, b) ==
    CASE v.kind = "nil" -> [sink |-> v, err |-> NoErr]
      [] v.kind = "Writer" ->
            IF v.broken /\ b # <<>>
            THEN [sink |-> v, err |-> [kind |-> "io", what |-> "write"]]
            ELSE [sink |-> [v EXCEPT !.written = @ \o b],
                  err |-> [kind |-> "transport", what |-> "Canceled"]]
      [] v.kind = "Struct" ->
            LET d == DecodeCancelled(b, v.val, v.typ)
            IN  [sink |-> [v EXCEPT !.val = d.v],
                 err |-> IF d.err = "EOF" \/ d.err = "nil" THEN NoErr
                         ELSE IF d.err = "Canceled"
                         THEN [kind |-> "transport", what |-> "Canceled"]
                         ELSE [kind |-> "json", what |-> d.err]]

\* a resource method has returned nothing yet
NoResult == [nil |-> TRUE, err |-> NoErr, returned |-> FALSE]

\* a resource method that hands on its sink whatever Do returned
MethodResultIgnoringError(v, e) == [nil |-> FALSE, val |-> v, err |-> e]

\* a getter that hands on a pointer to an empty value where the field it
\* unwraps is nil
MethodResultNeverNil(v, e) ==
    IF e # NoErr THEN [nil |-> TRUE, err |-> e] ELSE [nil |-> FALSE, val |-> v, err |-> NoErr]

\* experiments.go:155-160 and 190-195, what a resource method returns after
\* Do has returned e with its sink being v: nil and the error; or no error
\* and the sink's content, which for a getter is the pointer it unwraps,
\* nil or not
MethodResult(v, e) ==
    IF e # NoErr THEN [nil |-> TRUE, err |-> e]
    ELSE IF v.kind = "Struct" /\ v.typ \in KeyToks /\ v.val.Ptr = "nil"
    THEN [nil |-> TRUE, err |-> NoErr]
    ELSE [nil |-> FALSE, val |-> v, err |-> NoErr]

\* the arguments of no call
NoCall == Call(<<>>, NilParams, NilBody)

\* context.Background(), and a context cancelled when the body stream had
\* delivered k tokens of the body (none before the response came)
Background == [done |-> FALSE, delivered |-> 0]
Cancelled(k) == [done |-> TRUE, delivered |-> k]

\* a goroutine that is in no call of Do
NoGoroutine ==
    [pc |-> "Idle", u |-> NoURL, sink |-> NilSink, sink0 |-> NilSink, req |-> NoReq,
     res |-> NoRes, err |-> NoErr, call |-> NoCall, ctx |-> Background, attempts |-> 0]

\* what the body stream hands over before it ends: the whole body and then
\* io.EOF, or under a cancelled context what it delivered before the cancel
\* and then the error of the context
Delivered == IF ctx.done THEN SubSeq(res.Body, 1, ctx.delivered) ELSE res.Body

\* the base URL with another path as the base URL in place of the client's own
BaseURLAliased(base, url) == url

\* mlflow.go:67-74, c.baseURL after the request URL url was made from it:
\* URL.Parse resolves into a URL of its own and Do sets the query of that one
ClientBaseURL(base, url) == base

\* the call tried again after a transport error
RetryAfterTransportError == "Built"

\* mlflow.go:90-92, where the call stands after c.client.Do failed
AfterTransportError == "Failed"

\* the body closed on the success path only
CloseBodyOnSuccessOnly(r) == IF r.StatusCode >= 400 THEN r ELSE [r EXCEPT !.closed = TRUE]

\* mlflow.go:93, the deferred res.Body.Close()
CloseBody(r) == [r EXCEPT !.closed = TRUE]

\* the body closed as soon as the response has come, before the switch on
\* the sink
ClosedOnResponse(r) == [r EXCEPT !.closed = TRUE]

\* mlflow.go:93: the close is deferred, the response goes on with its body
\* open
AfterResponse(r) == r

\* a Read of a closed body fails (http: read on closed response body): the
\* error decoder is left with no message, the writer and the struct with
\* nothing, and the read's error is returned unless the sink is nil
ReadClosedError(status) == [StatusCode |-> status, ErrorCode |-> <<>>, Message |-> <<>>]
ReadClosedResult(v) ==
    [sink |-> v,
     err |-> IF v.kind = "nil" THEN NoErr
             ELSE [kind |-> "transport", what |-> "ReadOnClosedBody"]]

\* the registers of a call that has not begun
IdleRegisters ==
    /\ u = NoURL
    /\ sink = NilSink
    /\ sink0 = NilSink
    /\ req = NoReq
    /\ res = NoRes
    /\ err = NoErr
    /\ call = NoCall
    /\ ctx = Background
    /\ attempts = 0
    /\ other = NoGoroutine
    /\ result = NoResult

\* the state a client made by NewClient(nil, raw) starts in
InitOf(raws) ==
    /\ \E raw \in raws : \E c \in {NewClient(raw)} :
          c.ok /\ baseURL = c.baseURL /\ rawBaseURL = raw
    /\ pc = "Idle"
    /\ IdleRegisters

Init == InitOf({LocalBase})

\* mlflow.go:66-87: the request is built; a path that does not parse or a
\* payload that does not marshal ends the call before anything is sent
Do(calls, sinks) ==
    /\ pc = "Idle"
    /\ \E c \in calls, v \in sinks :
          \E r \in {RequestURL(baseURL, c.path, c.params)},
             b \in {encodeBody(c.body)} :
              /\ call' = c
              /\ sink' = v
              /\ sink0' = v
              /\ IF ~r.ok
                 THEN /\ pc' = "Failed"
                      /\ u' = NoURL
                      /\ req' = NoReq
                      /\ err' = [kind |-> "url", what |-> "parse"]
                      /\ baseURL' = baseURL
                 ELSE IF ~b.ok
                 THEN /\ pc' = "Failed"
                      /\ u' = NoURL
                      /\ req' = NoReq
                      /\ err' = [kind |-> "json", what |-> "UnsupportedTypeError"]
                      /\ baseURL' = ClientBaseURL(baseURL, r.url)
                 ELSE /\ pc' = "Built"
                      /\ u' = r.url
                      /\ req' = [HasBody |-> b.has, Body |-> b.bytes,
                                 ContentType |-> "application/json"]
                      /\ err' = NoErr
                      /\ baseURL' = ClientBaseURL(baseURL, r.url)
    /\ ctx' = Background
    /\ attempts' = 0
    /\ result' = NoResult
    /\ UNCHANGED <<rawBaseURL, res, other>>

\* mlflow.go:89-92: c.client.Do(req) fails, under a cancelled context with
\* the error of the context
RoundTripFails ==
    /\ pc = "Built"
    /\ pc' = AfterTransportError
    /\ attempts' = attempts + 1
    /\ err' = [kind |-> "transport", what |-> IF ctx.done THEN "Canceled" ELSE "Do"]
    /\ UNCHANGED <<baseURL, rawBaseURL, u, sink, sink0, req, res, call, ctx, other, result>>

\* mlflow.go:89: c.client.Do(req) returns a response
RoundTripOf(statuses, bodies) ==
    /\ pc = "Built"
    /\ ~ctx.done
    /\ \E status \in statuses, b \in bodies :
          res' = AfterResponse([StatusCode |-> status, Body |-> b, closed |-> FALSE])
    /\ pc' = "Sent"
    /\ attempts' = attempts + 1
    /\ UNCHANGED <<baseURL, rawBaseURL, u, sink, sink0, req, err, call, ctx, other, result>>

RoundTrip == RoundTripOf(Statuses, Bodies)

\* mlflow.go:95
Classify ==
    /\ pc = "Sent"
    /\ pc' = IF IsAPIError(res.StatusCode) THEN "ErrorClassified" ELSE "SuccessClassified"
    /\ UNCHANGED <<baseURL, rawBaseURL, u, sink, sink0, req, res, err, call, ctx, attempts, other, result>>

\* the error branch as it would be without its return: after the error is
\* decoded the call goes on to the switch on the sink
DecodeErrorFallsThrough ==
    /\ pc = "ErrorClassified"
    /\ \E c \in Consumed(Delivered) :
          \E e \in {IF res.closed
                    THEN ReadClosedError(res.StatusCode)
                    ELSE IF ctx.done
                    THEN DecodeErrorBodyCancelled(res.StatusCode, Delivered, c)
                    ELSE DecodeErrorBody(res.StatusCode, res.Body, c)} :
              err' = [kind |-> "Error", StatusCode |-> e.StatusCode,
                      ErrorCode |-> e.ErrorCode, Message |-> e.Message]
    /\ res' = CloseBody(res)
    /\ pc' = "SuccessClassified"
    /\ UNCHANGED <<baseURL, rawBaseURL, u, sink, sink0, req, call, ctx, attempts, other, result>>
\* mlflow.go:96-103, and the deferred res.Body.Close()
DecodeError ==
    /\ pc = "ErrorClassified"
    /\ \E c \in Consumed(Delivered) :
          \E e \in {IF res.closed
                    THEN ReadClosedError(res.StatusCode)
                    ELSE IF ctx.done
                    THEN DecodeErrorBodyCancelled(res.StatusCode, Delivered, c)
                    ELSE DecodeErrorBody(res.StatusCode, res.Body, c)} :
              err' = [kind |-> "Error", StatusCode |-> e.StatusCode,
                      ErrorCode |-> e.ErrorCode, Message |-> e.Message]
    /\ res' = CloseBody(res)
    /\ pc' = "ErrorDecoded"
    /\ UNCHANGED <<baseURL, rawBaseURL, u, sink, sink0, req, call, ctx, attempts, other, result>>

\* mlflow.go:106-117, and the deferred res.Body.Close()
DecodeResult ==
    /\ pc = "SuccessClassified"
    /\ \E r \in {IF res.closed
                 THEN ReadClosedResult(sink)
                 ELSE IF ctx.done
                 THEN DecodeResultBodyCancelled(sink, Delivered)
                 ELSE DecodeResultBody(sink, res.Body)} :
           /\ sink' = r.sink
           /\ err' = r.err
    /\ res' = CloseBody(res)
    /\ pc' = "ResultDecoded"
    /\ UNCHANGED <<baseURL, rawBaseURL, u, sink0, req, call, ctx, attempts, other, result>>

\* Do has returned; the client is ready for the next call
Return ==
    /\ pc \in {"ErrorDecoded", "ResultDecoded", "Failed"}
    /\ pc' = "Idle"
    /\ u' = NoURL
    /\ sink' = NilSink
    /\ sink0' = NilSink
    /\ req' = NoReq
    /\ res' = NoRes
    /\ err' = NoErr
    /\ call' = NoCall
    /\ ctx' = Background
    /\ attempts' = 0
    /\ result' = MethodResult(sink, err)
    /\ UNCHANGED <<baseURL, rawBaseURL, other>>

Next ==
    \/ Do(DoCalls, Sinks)
    \/ RoundTripFails
    \/ RoundTrip
    \/ Classify
    \/ DecodeError
    \/ DecodeResult
    \/ Return

Spec == Init /\ [][Next]_vars

(***************************************************************************)
(* The resource methods.  Each builds its options from its arguments and   *)
(* the clock, hands them to Do with the sink it declares, and returns what *)
(* Do decoded, or one field of it.                                         *)
(***************************************************************************)
\* the largest time, in milliseconds, an argument or the clock takes
MaxTime == 2

\* startTime, endTime and timestamp arguments
Times == -1..MaxTime
\* time.Now().UnixMilli(): the clock is past the epoch
Clock == 1..MaxTime

\* runs.go:11-17 and the empty status
RunStatuses == {"", "RUNNING", "SCHEDULED", "FINISHED", "FAILED", "KILLED"}

\* Update with only FINISHED counted as the end of a run
EndTimeOnlyWhenFinished(status, endTime, now) ==
    IF endTime = 0 /\ status = "FINISHED" THEN now ELSE endTime

\* runs.go:147-154: opts.EndTime
EndTimeOf(status, endTime, now) ==
    IF endTime = 0 /\ (status = "FINISHED" \/ status = "FAILED" \/ status = "KILLED")
    THEN now
    ELSE endTime

\* Create with the start time passed on as it came
StartTimeAsGiven(startTime, now) == startTime

\* runs.go:114-119: opts.StartTime
StartTimeOf(startTime, now) == IF startTime = 0 THEN now ELSE startTime

\* runs.go:258: opts.Timestamp
TimestampOf(timestamp, now) == timestamp

\* tags, a map[string]string: nil, of one entry, and of two, one of them
\* with an empty value
TagMaps ==
    {[k \in {} |-> ""], [k \in {"a"} |-> "x"], [k \in {"a", "b"} |-> IF k = "a" THEN "x" ELSE ""]}

\* the orders in which a range over the map m may yield its keys
Orders(m) ==
    {o \in [1..Cardinality(DOMAIN m) -> DOMAIN m] :
        \A i, j \in DOMAIN o : i # j => o[i] # o[j]}

\* runs.go:121-123: opts.Tags after the range over m in the order o
TagList(m, o) == [i \in DOMAIN o |-> [Key |-> o[i], Value |-> m[o[i]]]]

\* the arguments of a method the model varies, and the clock it read
Args(status, time, tags, nilopts, now) ==
    [status |-> status, time |-> time, tags |-> tags, nilopts |-> nilopts, now |-> now]

\* a call of Do by a method, with the sink the method declares
MethodCall(method, args, path, params, body, v) ==
    [call |-> [method |-> method, args |-> args, path |-> path, params |-> params,
               body |-> body],
     sink |-> v]

Opts(fields) == [kind |-> "opts", fields |-> fields]

\* var res struct with one pointer field, and var res RunSearchResults
WrapperSink(wrapper) == [kind |-> "Struct", typ |-> wrapper, val |-> [Ptr |-> "nil"]]
SearchSink == [kind |-> "Struct", typ |-> "Search", val |-> [NextPageToken |-> <<>>]]

\* runs.go:137-166
RunServiceUpdate ==
    {MethodCall("RunService.Update", Args(status, endTime, <<>>, FALSE, now),
                <<"r", "u", "n", "s", "/", "u", "p", "d", "a", "t", "e">>, NilParams,
                Opts(<<StrField("\"run_id\"", "r"), StrField("\"run_name\"", ""),
                       StrField("\"status\"", status),
                       IntField("\"end_time\"", EndTimeOf(status, endTime, now))>>),
                WrapperSink(KInfo)) :
        status \in RunStatuses, endTime \in Times, now \in Clock}

\* runs.go:105-135
RunServiceCreate ==
    UNION {{MethodCall("RunService.Create", Args("", startTime, tags, FALSE, now),
                       <<"r", "u", "n", "s", "/", "c", "r", "e", "a", "t", "e">>, NilParams,
                       Opts(<<StrField("\"experiment_id\"", "1"), StrField("\"run_name\"", ""),
                              IntField("\"start_time\"", StartTimeOf(startTime, now)),
                              TagsField("\"tags\"", TagList(tags, o))>>),
                       WrapperSink(KRun)) : o \in Orders(tags)} :
           startTime \in Times, tags \in TagMaps, now \in Clock}

\* runs.go:248-265; value is 0 or 1
RunServiceLogMetric ==
    {MethodCall("RunService.LogMetric", Args("", timestamp, <<>>, FALSE, now),
                <<"r", "u", "n", "s", "/", "l", "o", "g", "-", "m", "e", "t", "r", "i", "c">>, NilParams,
                Opts(<<StrField("\"run_id\"", "r"), StrField("\"key\"", "k"),
                       IntField("\"value\"", value),
                       IntField("\"timestamp\"", TimestampOf(timestamp, now)),
                       IntField("\"step\"", 0)>>),
                NilSink) :
        timestamp \in Times, now \in Clock, value \in {0, 1}}

\* opts of a search or a listing: a nil pointer, or a pointer to options
\* with a filter or a run id
OptsPointer(nilopts, key) ==
    IF nilopts THEN [kind |-> "nilptr"] ELSE Opts(<<StrField(key, "f")>>)

\* runs.go:209-218
RunServiceSearch ==
    {MethodCall("RunService.Search", Args("", 0, <<>>, nilopts, 1),
                <<"r", "u", "n", "s", "/", "s", "e", "a", "r", "c", "h">>, NilParams, OptsPointer(nilopts, "\"filter\""), SearchSink) :
        nilopts \in BOOLEAN}

\* artifacts.go:42-51; of the ListArtifactsResponse the page token is kept
ArtifactsServiceList ==
    {MethodCall("ArtifactsService.List", Args("", 0, <<>>, nilopts, 1),
                <<"a", "r", "t", "i", "f", "a", "c", "t", "s", "/", "l", "i", "s", "t">>, NilParams, OptsPointer(nilopts, "\"run_id\""), SearchSink) :
        nilopts \in BOOLEAN}

\* experiments.go:146-160
ExperimentServiceGet ==
    {MethodCall("ExperimentService.Get", Args("", 0, <<>>, FALSE, 1),
                <<"e", "x", "p", "e", "r", "i", "m", "e", "n", "t", "s", "/", "g", "e", "t">>,
                Values(<<[key |-> <<"e", "x", "p", "e", "r", "i", "m", "e", "n", "t", "_", "i", "d">>, value |-> <<"1">>]>>),
                NilBody, WrapperSink(KExperiment))}

MethodCalls ==
    RunServiceUpdate \cup RunServiceCreate \cup RunServiceLogMetric
    \cup RunServiceSearch \cup ArtifactsServiceList \cup ExperimentServiceGet

\* a method is called: it reads the clock, builds its options and calls Do
Invoke == \E m \in MethodCalls : Do({m.call}, {m.sink})

\* the bodies a server answers a method with: none, objects without the
\* field a getter unwraps, and objects with it
MethodBodies ==
    {<<>>, <<LBrace, RBrace>>,
     <<LBrace, KMessage, Colon, SNotFound, RBrace>>,
     <<LBrace, KNextPageToken, Colon, SNotFound, RBrace>>,
     <<LBrace, KExperiment, Colon, NullTok, RBrace>>,
     <<LBrace, KExperiment, Colon, LBrace, RBrace, RBrace>>,
     <<LBrace, KExperiment, Colon, LBrace, KExperimentID, Colon, SNotFound, RBrace, Comma,
       KMessage, Colon, SNotFound, RBrace>>,
     <<LBrace, KRun, Colon, LBrace, RBrace, RBrace>>,
     <<LBrace, KInfo, Colon, LBrace, KMessage, Colon, SNotFound, RBrace, RBrace>>}

MethodStatuses == {200, 404}

NextMethods ==
    \/ Invoke
    \/ RoundTripFails
    \/ RoundTripOf(MethodStatuses, MethodBodies)
    \/ Classify
    \/ DecodeError
    \/ DecodeResult
    \/ Return

SpecMethods == Init /\ [][NextMethods]_vars
(***************************************************************************)
(* A server that answers a request with the body it was sent: what the     *)
(* request encoder wrote is what the result decoder reads.                 *)
(***************************************************************************)
\* the texts a string field holds: the empty one and what the model's string
\* literals stand for
Texts == {<<>>} \cup {Unquote(t) : t \in StringToks}

\* payloads and sinks of the type of the options of ExperimentService.Delete
\* and the result of ExperimentService.Create, a struct of one string field
\* tagged experiment_id,omitempty; and a nil pointer to it as payload
EchoCalls ==
    {Call(<<"a">>, NilParams, [kind |-> "struct", val |-> [ExperimentID |-> x]]) : x \in Texts}
    \cup {Call(<<"a">>, NilParams, [kind |-> "nilptr"])}

EchoSinks == {StructSink(<<>>), StructSink(<<"old">>), StructSink(<<"not found">>)}

\* the status codes of success
EchoStatuses == {200, 201}

\* the response carries the body of the request
Echo ==
    /\ req.HasBody
    /\ RoundTripOf(EchoStatuses, {req.Body})

NextEcho ==
    \/ Do(EchoCalls, EchoSinks)
    \/ Echo
    \/ Classify
    \/ DecodeResult
    \/ Return

SpecEcho == Init /\ [][NextEcho]_vars
(***************************************************************************)
(* The methods of LoggedModelService that put a model id, and a tag key,   *)
(* into the path they pass to Do.                                          *)
(***************************************************************************)
\* the longest model id and the longest tag key
MaxIDLen == 2
MaxKeyLen == 1

IDChars == {"/", ".", "?", "#", "m"}
ModelIDs == UNION {[1..k -> IDChars] : k \in 0..MaxIDLen}
TagKeys == UNION {[1..k -> IDChars] : k \in 0..MaxKeyLen}

\* fmt.Sprintf("logged-models/%s" + suffix, modelID)
LoggedModelPath(modelID, suffix) == <<"l", "o", "g", "g", "e", "d", "-", "m", "o", "d", "e", "l", "s", "/">> \o modelID \o suffix

\* a call of Do by a method of LoggedModelService
LoggedModelCall(method, modelID, tagKey, path, params, body, v) ==
    [call |-> [method |-> method, modelID |-> modelID, tagKey |-> tagKey, path |-> path,
               params |-> params, body |-> body],
     sink |-> v]

\* logged_models.go:186-197
LoggedModelServiceGet ==
    {LoggedModelCall("Get", id, <<>>, LoggedModelPath(id, <<>>), NilParams, NilBody,
                     WrapperSink(KModel)) : id \in ModelIDs}

\* logged_models.go:219-228
LoggedModelServiceDelete ==
    {LoggedModelCall("Delete", id, <<>>, LoggedModelPath(id, <<>>), NilParams,
                     Opts(<<Always(StrField("\"model_id\"", Str(id)))>>), NilSink) :
        id \in ModelIDs}

\* logged_models.go:243-265
LoggedModelServiceSetTags ==
    UNION {{LoggedModelCall("SetTags", id, <<>>, LoggedModelPath(id, <<"/", "t", "a", "g", "s">>), NilParams,
                            Opts(<<Always(TagsField("\"tags\"", TagList(tags, o)))>>),
                            WrapperSink(KModel)) : o \in Orders(tags)} :
           id \in ModelIDs, tags \in TagMaps}

\* logged_models.go:268-271
LoggedModelServiceDeleteTag ==
    {LoggedModelCall("DeleteTag", id, k, LoggedModelPath(id, <<"/", "t", "a", "g", "s", "/">> \o k),
                     NilParams, NilBody, NilSink) :
        id \in ModelIDs, k \in TagKeys}

\* logged_models.go:274-290
LoggedModelServiceLogParams ==
    UNION {{LoggedModelCall("LogParams", id, <<>>, LoggedModelPath(id, <<"/", "p", "a", "r", "a", "m", "s">>),
                            NilParams,
                            Opts(<<Always(StrField("\"model_id\"", Str(id))),
                                   Always(TagsField("\"params\"", TagList(ps, o)))>>),
                            NilSink) : o \in Orders(ps)} :
           id \in ModelIDs, ps \in TagMaps}

\* logged_models.go:293-307, the path argument empty or "d"
LoggedModelServiceListArtifacts ==
    {LoggedModelCall("ListArtifacts", id, <<>>, LoggedModelPath(id, <<"/", "a", "r", "t", "i", "f", "a", "c", "t", "s", "/", "d", "i", "r", "e", "c", "t", "o", "r", "i", "e", "s">>),
                     Values(IF path = <<>> THEN <<>>
                            ELSE <<[key |-> <<"a", "r", "t", "i", "f", "a", "c", "t", "_", "d", "i", "r", "e", "c", "t", "o", "r", "y", "_", "p", "a", "t", "h">>, value |-> path]>>),
                     NilBody, SearchSink) :
        id \in ModelIDs, path \in {<<>>, <<"d">>}}

LoggedModelCalls ==
    LoggedModelServiceGet \cup LoggedModelServiceDelete \cup LoggedModelServiceSetTags
    \cup LoggedModelServiceDeleteTag \cup LoggedModelServiceLogParams
    \cup LoggedModelServiceListArtifacts

\* a method of LoggedModelService is called
InvokeLoggedModel == \E m \in LoggedModelCalls : Do({m.call}, {m.sink})

NextLoggedModels ==
    \/ InvokeLoggedModel
    \/ RoundTripFails
    \/ Return

SpecLoggedModels == InitOf(BaseURLs) /\ [][NextLoggedModels]_vars
(***************************************************************************)
(* The calls that ask for every short path, against every base URL.        *)
(***************************************************************************)
\* length of the path strings passed to Do
MaxPathLen == 4

PathChars == {"/", ".", "a", ":", "?", "#"}

Paths == UNION {[1..k -> PathChars] : k \in 0..MaxPathLen}

InitResolve == InitOf(BaseURLs)

\* every path with every params and payload
AllCalls == {Call(p, q, b) : p \in Paths, q \in ParamSets, b \in Payloads}

NextResolve ==
    \/ Do(AllCalls, {NilSink})
    \/ RoundTripFails
    \/ Return

SpecResolve == InitResolve /\ [][NextResolve]_vars

(***************************************************************************)
(* The construction of the client, from every short base URL string.       *)
(***************************************************************************)
\* length of the base URL strings passed to NewClient
MaxURLLen == 4

URLChars == {"h", ":", "/", "@", "?"}

RawURLs == UNION {[1..k -> URLChars] : k \in 0..MaxURLLen}

\* before NewClient is called there is no client
InitNew ==
    /\ rawBaseURL \in RawURLs
    /\ baseURL = NoURL
    /\ pc = "Start"
    /\ IdleRegisters

\* mlflow.go:33-64, NewClient(nil, rawBaseURL): a client, or nil and the
\* error of url.Parse
New ==
    /\ pc = "Start"
    /\ \E c \in {NewClient(rawBaseURL)} :
          IF c.ok
          THEN /\ baseURL' = c.baseURL
               /\ pc' = "Idle"
               /\ err' = NoErr
          ELSE /\ baseURL' = NoURL
               /\ pc' = "NoClient"
               /\ err' = [kind |-> "url", what |-> "parse"]
    /\ UNCHANGED <<rawBaseURL, call, ctx, u, sink, sink0, req, res, attempts, other, result>>

\* the call made on the new client
NewCalls == {Call(<<"a">>, NilParams, NilBody)}

NextNew ==
    \/ New
    \/ Do(NewCalls, {NilSink})
    \/ RoundTripFails
    \/ Return

SpecNewClient == InitNew /\ [][NextNew]_vars

(***************************************************************************)
(* Calls whose context is cancelled while they run.                        *)
(***************************************************************************)
\* the objects of no member and of one member
SmallObjects == {Object(<<>>)} \cup {Object(<<p>>) : p \in Pairs}

\* the bodies answered to the calls that may be cancelled
CancelBodies ==
    {<<>>, <<Garbage>>, <<NullTok>>} \cup UNION {Variants(o) : o \in SmallObjects}

\* the caller cancels ctx, or its deadline passes, while the call waits for
\* the response or before it has read the body to its end: the body stream
\* hands over k tokens and then fails
Cancel ==
    /\ pc \in {"Built", "Sent", "ErrorClassified", "SuccessClassified"}
    /\ ~ctx.done
    /\ \E k \in 0..Len(res.Body) : ctx' = Cancelled(k)
    /\ UNCHANGED <<baseURL, rawBaseURL, pc, call, u, sink, sink0, req, res, err,
                   attempts, other, result>>

NextCancel ==
    \/ Do(DoCalls, Sinks)
    \/ Cancel
    \/ RoundTripFails
    \/ RoundTripOf(Statuses, CancelBodies)
    \/ Classify
    \/ DecodeError
    \/ DecodeResult
    \/ Return

SpecCancel == Init /\ [][NextCancel]_vars

(***************************************************************************)
(* Two goroutines that call Do on one Client.  The variables of a call     *)
(* are those of the goroutine that runs; the scheduler may switch to the   *)
(* other goroutine between any two steps.                                  *)
(***************************************************************************)
\* the call of the goroutine that runs
Running ==
    [pc |-> pc, u |-> u, sink |-> sink, sink0 |-> sink0, req |-> req,
     res |-> res, err |-> err, call |-> call, ctx |-> ctx, attempts |-> attempts]

\* the scheduler takes the running goroutine off and runs the other one
Switch ==
    /\ other' = Running
    /\ pc' = other.pc
    /\ u' = other.u
    /\ sink' = other.sink
    /\ sink0' = other.sink0
    /\ req' = other.req
    /\ res' = other.res
    /\ err' = other.err
    /\ call' = other.call
    /\ ctx' = other.ctx
    /\ attempts' = other.attempts
    /\ UNCHANGED <<baseURL, rawBaseURL, result>>

\* the calls, sinks and responses of the two goroutines
ConcCalls ==
    {Call(<<"a">>, NilParams, NilBody),
     Call(<<"x">>, Values(<<[key |-> <<"i", "d">>, value |-> <<"1">>]>>),
          [kind |-> "struct", val |-> [ExperimentID |-> <<"not found">>]])}

ConcSinks == {WriterSink(FALSE), StructSink(<<>>)}

ConcStatuses == {200, 400}

ConcBodies ==
    {<<>>, Object(<<<<KExperimentID, SNotFound>>>>), Object(<<<<KMessage, SNotFound>>>>)}

NextConcurrent ==
    \/ Do(ConcCalls, ConcSinks)
    \/ RoundTripFails
    \/ RoundTripOf(ConcStatuses, ConcBodies)
    \/ Classify
    \/ DecodeError
    \/ DecodeResult
    \/ Return
    \/ Switch

SpecConcurrent == Init /\ [][NextConcurrent]_vars

(***************************************************************************)
(* Properties.                                                             *)
(***************************************************************************)
\* a response came back and Do has branched on its status
Classified == pc \in {"ErrorClassified", "SuccessClassified", "ErrorDecoded", "ResultDecoded"}
OnErrorPath == pc \in {"ErrorClassified", "ErrorDecoded"}
\* Do has returned after a response came back
Answered == pc \in {"ErrorDecoded", "ResultDecoded"}

ZeroError == [StatusCode |-> 0, ErrorCode |-> <<>>, Message |-> <<>>]

\* C1 as stated: Do takes the API-error path iff 400 <= status < 600; every
\* other status, 600 and above included, goes to the result decoder.
C1_ErrorPathIff400To599 ==
    Classified =>
        (OnErrorPath <=> (res.StatusCode >= 400 /\ res.StatusCode < 600))

\* C1 as amended: Do takes the API-error path, and returns an *Error, iff
\* the status is at least 400; there is no upper limit, a status of 600 or
\* more is an API error too.  Every status below 400 goes to the result
\* decoder, which never returns an *Error.
C1_ErrorPathIffAtLeast400 ==
    /\ Classified => (OnErrorPath <=> res.StatusCode >= 400)
    /\ Answered => ((err.kind = "Error") <=> res.StatusCode >= 400)

\* C1: a response of status 600 or more has been returned as an *Error
C1_Witness ==
    pc = "ErrorDecoded" /\ res.StatusCode >= 600 /\ err.kind = "Error"

\* the body does not decode into an Error without a decode error
Undecodable(b) == Decode(b, ZeroError, "Error").err # "nil"

\* C2: for a response of status >= 400 whose body does not decode as the
\* JSON error object, the returned *Error has an empty ErrorCode and the whole
\* raw body as its Message.
C2_FallbackMessageIsWholeBody ==
    (pc = "ErrorDecoded" /\ Undecodable(res.Body)) =>
        (err.kind = "Error" /\ err.ErrorCode = <<>> /\ err.Message = res.Body)

\* C3: the StatusCode of the returned *Error is the status of the response,
\* whatever the body holds.
C3_StatusCodeIsResponseStatus ==
    pc = "ErrorDecoded" => err.StatusCode = res.StatusCode

\* the value of the last member of kv = <<k1, v1, k2, v2, ...>> with key k
RECURSIVE LastValue(_, _, _)
LastValue(kv, k, found) ==
    IF Len(kv) < 2 THEN found
    ELSE LastValue(SubSeq(kv, 3, Len(kv)), k, IF kv[1] = k THEN kv[2] ELSE found)

\* every member of kv with key k has a string value
RECURSIVE AllStrings(_, _)
AllStrings(kv, k) ==
    Len(kv) < 2
    \/ /\ kv[1] = k => kv[2] \in StringToks
       /\ AllStrings(SubSeq(kv, 3, Len(kv)), k)

\* b is one well-formed JSON object and nothing else, with string members
\* error_code and message
IsErrorObject(b) ==
    /\ b \in Objects
    /\ LET kv == Members(b, 2, Len(b) - 1)
       IN  /\ LastValue(kv, KErrorCode, NullTok) \in StringToks
           /\ LastValue(kv, KMessage, NullTok) \in StringToks
           /\ AllStrings(kv, KErrorCode)
           /\ AllStrings(kv, KMessage)

\* C4: for a response of status >= 400 whose body is a well-formed JSON
\* object with string fields error_code and message, the returned *Error
\* carries that error_code, that message and the status of the response.
C4_StructuredErrorDecoded ==
    (pc = "ErrorDecoded" /\ IsErrorObject(res.Body)) =>
        LET kv == Members(res.Body, 2, Len(res.Body) - 1)
        IN  /\ err.kind = "Error"
            /\ err.ErrorCode = Unquote(LastValue(kv, KErrorCode, NullTok))
            /\ err.Message = Unquote(LastValue(kv, KMessage, NullTok))
            /\ err.StatusCode = res.StatusCode

\* C5: for a response of status >= 400 the returned error is an *Error
\* whose Message is not empty, whatever the body.
C5_AlwaysErrorWithMessage ==
    (Answered /\ res.StatusCode >= 400) =>
        (err.kind = "Error" /\ err.Message # <<>>)

\* C6: for a response of status < 400 with an empty body, Do with a
\* structured sink returns nil and leaves the sink as it was.
C6_EmptyBodyLeavesSink ==
    (Answered /\ res.StatusCode < 400 /\ res.Body = <<>> /\ sink0.kind = "Struct") =>
        (err = NoErr /\ sink = sink0)

\* C6: an empty success body was answered to a call whose sink held a value
C6_Witness ==
    /\ pc = "ResultDecoded"
    /\ res.Body = <<>>
    /\ sink0 = StructSink(<<"old">>)
    /\ sink = sink0
    /\ err = NoErr

\* C7: for a response of status < 400, Do with an io.Writer sink returns
\* nil whenever the copy succeeds, and then the sink has received exactly the
\* bytes of the body, in order, after what it held.
C7_WriterGetsExactBody ==
    (Answered /\ res.StatusCode < 400 /\ sink0.kind = "Writer") =>
        /\ sink.kind = "Writer"
        /\ ~sink0.broken => err = NoErr
        /\ err = NoErr => sink.written = sink0.written \o res.Body

\* C7: a body that is a JSON object was copied to a writer token for token
C7_Witness ==
    /\ pc = "ResultDecoded"
    /\ sink0 = WriterSink(FALSE)
    /\ res.Body \in Objects
    /\ Len(res.Body) > 2
    /\ sink.written = res.Body
    /\ err = NoErr

\* C8: for a response of status < 400, Do with a nil sink returns nil
\* whatever the body holds.
C8_NilSinkNeverFails ==
    (Answered /\ res.StatusCode < 400 /\ sink0.kind = "nil") =>
        (err = NoErr /\ sink = sink0)

\* C8: a body that is no JSON was answered to a call with a nil sink
C8_Witness ==
    /\ pc = "ResultDecoded"
    /\ sink0 = NilSink
    /\ readValue(res.Body).kind = "syntax"
    /\ err = NoErr

\* only white space from token i of b on
RECURSIVE OnlySpace(_, _)
OnlySpace(b, i) == i > Len(b) \/ (b[i] = Space /\ OnlySpace(b, i + 1))

\* the whole of b is one JSON value that fits the struct v
ValidJSONFor(b, v) ==
    LET s == readValue(b)
    IN  /\ s.kind = "value"
        /\ OnlySpace(b, s.last + 1)
        /\ Unmarshal(b, s.first, s.last, v, "Create").err = "nil"

\* C9 as stated: for a response of status < 400 whose body is not empty and
\* is not valid JSON for the structured sink, Do returns an error that is not
\* nil and not an *Error.
C9_InvalidBodyFails ==
    (Answered /\ res.StatusCode < 400 /\ sink0.kind = "Struct"
       /\ res.Body # <<>> /\ ~ValidJSONFor(res.Body, sink0.val)) =>
        err.kind \notin {"nil", "Error"}

\* C9 as amended: for a response of status < 400 and a structured sink, Do
\* returns an error that is not nil and not an *Error iff the first JSON value
\* of the body is malformed, cut short, or of a type that does not fit the
\* sink.  A body with no JSON value at all (empty, or white space only) is a
\* success, and what follows the first complete value is not looked at.
C9_FirstValueDecides ==
    (Answered /\ res.StatusCode < 400 /\ sink0.kind = "Struct") =>
        LET s == readValue(res.Body)
            fails == \/ s.kind \in {"syntax", "unexpected"}
                     \/ /\ s.kind = "value"
                        /\ Unmarshal(res.Body, s.first, s.last, sink0.val, "Create").err # "nil"
        IN  /\ fails <=> err.kind # "nil"
            /\ err.kind \in {"nil", "json"}

\* C9: a body cut short inside an object was answered and Do failed
C9_Witness ==
    /\ pc = "ResultDecoded"
    /\ sink0.kind = "Struct"
    /\ readValue(res.Body).kind = "unexpected"
    /\ err.kind = "json"

\* the URL begins with the normalized base: same scheme, user and host, and
\* a path under the base path
HasBasePrefix(url, base) ==
    /\ url.Scheme = base.Scheme
    /\ url.Opaque = ""
    /\ url.User = base.User
    /\ url.Host = base.Host
    /\ Len(url.Path) >= Len(base.Path)
    /\ SubSeq(url.Path, 1, Len(base.Path) - 1) = SubSeq(base.Path, 1, Len(base.Path) - 1)

\* C10: for every path passed to Do the requested URL has the normalized
\* base URL as a prefix.
C10_RequestURLUnderBase ==
    pc = "Built" => HasBasePrefix(u, baseURL)

\* the path string of a split path
RECURSIVE JoinPath(_)
JoinPath(parts) ==
    IF Len(parts) = 1 THEN parts[1] ELSE parts[1] \o "/" \o JoinPath(Tail(parts))

\* NewClient has returned a client
HasClient == pc \notin {"Start", "NoClient"}

\* the split path ends in "/"
EndsInSlash(parts) == Len(parts) >= 2 /\ parts[Len(parts)] = ""

\* C11: for every parseable base URL the base path of the client is the
\* original path, then one "/" unless the original path ends in "/", then
\* "api/2.0/mlflow/" once; the same base URL with a trailing slash added to
\* its path gives the same normalized base.
C11_BasePathNormalized ==
    HasClient =>
        LET orig == ParseURL(rawBaseURL).url
            slashed == rawBaseURL \o <<"/">>
        IN  /\ JoinPath(baseURL.Path)
                  = JoinPath(orig.Path) \o (IF EndsInSlash(orig.Path) THEN "" ELSE "/")
                    \o "api/2.0/mlflow/"
            /\ [baseURL EXCEPT !.Path = orig.Path] = orig
            /\ (/\ ~EndsInSlash(orig.Path)
                /\ ParseURL(slashed).ok
                /\ ParseURL(slashed).url = [orig EXCEPT !.Path = Append(@, "")])
               => NewClient(slashed).baseURL = baseURL

\* C11: clients were made from a base URL whose path ends in "/" and from
\* one with an empty path
C11_Witness ==
    /\ pc = "Idle"
    /\ rawBaseURL \in {<<"/", "/", "h", "/">>, <<"/", "/", "h">>}
    /\ baseURL.Host = "h"
    /\ baseURL.Path = <<"", "api", "2.0", "mlflow", "">>

\* C12: from a base URL string that does not parse, NewClient returns no
\* client and an error; Do is never called on a client made from it.
C12_NoClientFromMalformedURL ==
    /\ ~ParseURL(rawBaseURL).ok =>
          /\ pc \in {"Start", "NoClient"}
          /\ baseURL = NoURL
    /\ pc = "NoClient" => (~ParseURL(rawBaseURL).ok /\ err.kind = "url")

\* C12: NewClient has refused the base URL ":"
C12_Witness ==
    pc = "NoClient" /\ rawBaseURL = <<":">> /\ err.kind = "url" /\ baseURL = NoURL

\* C13: a request of Do carries the header content-type: application/json
\* iff it has a body; with a nil payload it has no body and no content-type
\* header.
C13_ContentTypeIffBody ==
    pc = "Built" =>
        /\ (req.ContentType = "application/json") <=> req.HasBody
        /\ call.body = NilBody => (~req.HasBody /\ req.ContentType = "")

\* C14: when params is nil or holds no pair, the requested URL has no "?"
\* and no query string.
C14_NoQueryWithoutParams ==
    (pc = "Built" /\ (call.params.nil \/ call.params.pairs = <<>>)) =>
        (u.RawQuery = "" /\ ~u.ForceQuery)

\* C20: for every path passed to Do the requested URL has the scheme, the
\* userinfo and the host of the configured base URL.
C20_CredentialsCarried ==
    pc = "Built" =>
        (u.Scheme = baseURL.Scheme /\ u.User = baseURL.User /\ u.Host = baseURL.Host)

\* Do has returned
Returned == pc \in {"Failed", "ErrorDecoded", "ResultDecoded"}

\* the context was cancelled while Do was reading the body: the decoder
\* still needed input, or the copy to the writer had not reached the end
ReadCancelled ==
    /\ pc \in {"ErrorDecoded", "ResultDecoded"}
    /\ ctx.done
    /\ \/ res.StatusCode < 400 /\ sink0.kind = "Writer"
       \/ /\ res.StatusCode >= 400 \/ sink0.kind = "Struct"
          /\ readValue(Delivered).toEOF

\* C15: when the context is cancelled before the response has come or
\* while its body is read, Do returns a transport error and the sink is as
\* it was before the call.
C15_CancelLeavesSink ==
    ((pc = "Failed" /\ ctx.done) \/ ReadCancelled) =>
        (err.kind = "transport" /\ sink = sink0)

\* C16: a call of Do executes the HTTP transport at most once, whatever
\* its outcome; every call that got past the building of the request has
\* executed it exactly once when it returns.
C16_TransportAtMostOnce ==
    /\ attempts <= 1
    /\ pc \in {"Sent", "ErrorClassified", "SuccessClassified", "ErrorDecoded",
                "ResultDecoded"} => attempts = 1
    /\ (pc = "Failed" /\ err.kind = "transport") => attempts = 1

\* C16: calls have ended on a cancellation, and on a decode failure, after
\* one execution of the transport
C16_Witness ==
    /\ attempts = 1
    /\ \/ pc = "Failed" /\ err = [kind |-> "transport", what |-> "Canceled"]
       \/ pc = "ResultDecoded" /\ err.kind = "json"

\* C17: when the transport has returned a response, its body is closed
\* when Do returns, on every path.
C17_BodyClosedOnReturn ==
    pc \in {"ErrorDecoded", "ResultDecoded"} => res.closed

\* C17: Do has returned an *Error made by the fallback, the body closed
C17_Witness ==
    /\ pc = "ErrorDecoded"
    /\ readValue(res.Body).kind = "syntax"
    /\ res.closed

\* the request and the outcome of the call g are those of the call made
\* alone on a client with the base URL base
RunsAsAlone(g, base) ==
    /\ g.pc \in {"Built", "Sent", "ErrorClassified", "SuccessClassified",
                  "ErrorDecoded", "ResultDecoded"} =>
          /\ RequestURL(base, g.call.path, g.call.params) = [ok |-> TRUE, url |-> g.u]
          /\ g.req.HasBody = encodeBody(g.call.body).has
          /\ g.req.Body = encodeBody(g.call.body).bytes
    /\ g.pc = "ErrorDecoded" =>
          /\ g.sink = g.sink0
          /\ \E c \in Consumed(g.res.Body) :
                LET e == DecodeErrorBody(g.res.StatusCode, g.res.Body, c)
                IN  g.err = [kind |-> "Error", StatusCode |-> e.StatusCode,
                             ErrorCode |-> e.ErrorCode, Message |-> e.Message]
    /\ g.pc = "ResultDecoded" =>
          [sink |-> g.sink, err |-> g.err] = DecodeResultBody(g.sink0, g.res.Body)

\* C18: Do never writes the shared Client: whatever the two goroutines
\* have done, in whatever order, the base URL is the one NewClient computed,
\* and the request URL, the request body and the outcome of each call are
\* those of that call made alone.
C18_ClientNeverWritten ==
    /\ baseURL = NewClient(rawBaseURL).baseURL
    /\ RunsAsAlone(Running, NewClient(rawBaseURL).baseURL)
    /\ RunsAsAlone(other, NewClient(rawBaseURL).baseURL)

\* C18: one goroutine waits for its response while the other has its
\* result, their calls being different ones
C18_Witness ==
    /\ pc = "Sent"
    /\ other.pc = "ResultDecoded"
    /\ call # other.call
    /\ u # other.u
    /\ other.err = NoErr

C21_FailsBeforeTransport ==
    (pc # "Idle" /\ (call.body.kind = "chan" \/ ~ParseRef(baseURL, call.path).ok)) =>
        /\ pc = "Failed"
        /\ err # NoErr
        /\ res = NoRes
        /\ req = NoReq
        /\ attempts = 0
        /\ sink = sink0

\* C21: Do has failed on a payload that cannot be marshalled, its sink a
\* struct that held a value
C21_Witness ==
    /\ pc = "Failed"
    /\ call.body.kind = "chan"
    /\ err = [kind |-> "json", what |-> "UnsupportedTypeError"]
    /\ sink = StructSink(<<"old">>)

\* a method's call of Do is under way: the request has been built
InMethod(method) == pc # "Idle" /\ call.method = method

\* the request body has a member named key, and the token that is its value
HasMember(b, key) == Index(b, key) # 0
MemberValue(b, key) == b[Index(b, key) + 2]

\* C22: the request of RunService.Update carries end_time equal to the
\* endTime argument when that is not 0; with endTime 0 it carries the
\* current time for the statuses FINISHED, FAILED and KILLED and no end_time
\* member for any other status.
C22_EndTimeSent ==
    InMethod("RunService.Update") =>
        LET a == call.args
            terminal == a.status \in {"FINISHED", "FAILED", "KILLED"}
        IN  /\ req.HasBody
            /\ a.time # 0 =>
                  /\ HasMember(req.Body, "\"end_time\"")
                  /\ MemberValue(req.Body, "\"end_time\"") = ToString(a.time)
            /\ (a.time = 0 /\ terminal) =>
                  /\ HasMember(req.Body, "\"end_time\"")
                  /\ MemberValue(req.Body, "\"end_time\"") = ToString(a.now)
            /\ (a.time = 0 /\ ~terminal) => ~HasMember(req.Body, "\"end_time\"")

\* C22: Update was called for a killed run with endTime 0 and its request,
\* carrying the time of the clock, has been sent
C22_Witness ==
    /\ pc = "Sent"
    /\ call.method = "RunService.Update"
    /\ call.args.status = "KILLED"
    /\ call.args.time = 0
    /\ call.args.now = MaxTime
    /\ MemberValue(req.Body, "\"end_time\"") = ToString(MaxTime)

\* the objects of the array that begins before b[i], each with its tokens
RECURSIVE Elements(_, _)
Elements(b, i) ==
    IF b[i] = RBracket THEN <<>>
    ELSE IF b[i] = LBrace
    THEN <<SubSeq(b, i, EndOfObject(b, i + 1, 1))>> \o Elements(b, EndOfObject(b, i + 1, 1) + 1)
    ELSE Elements(b, i + 1)

\* the tags a request body carries, none when it has no member tags
TagsSent(b) ==
    IF HasMember(b, "\"tags\"") THEN Elements(b, Index(b, "\"tags\"") + 3) ELSE <<>>

\* the key and the value of a tag object, a member left out being the
\* empty string
EntrySent(e) ==
    [Key |-> IF HasMember(e, "\"key\"") THEN MemberValue(e, "\"key\"") ELSE "\"\"",
     Value |-> IF HasMember(e, "\"value\"") THEN MemberValue(e, "\"value\"") ELSE "\"\""]

\* C23: the request of RunService.Create always carries start_time, equal
\* to the startTime argument when that is not 0 and to the current time
\* when it is 0; it carries as many tags as the map has entries, and each
\* entry of the map exactly once.
C23_StartTimeAndTagsSent ==
    InMethod("RunService.Create") =>
        LET a == call.args
            sent == TagsSent(req.Body)
        IN  /\ req.HasBody
            /\ HasMember(req.Body, "\"start_time\"")
            /\ MemberValue(req.Body, "\"start_time\"")
                  = ToString(IF a.time # 0 THEN a.time ELSE a.now)
            /\ Len(sent) = Cardinality(DOMAIN a.tags)
            /\ \A k \in DOMAIN a.tags :
                  Cardinality({i \in DOMAIN sent :
                                  EntrySent(sent[i]) = [Key |-> "\"" \o k \o "\"",
                                                        Value |-> "\"" \o a.tags[k] \o "\""]}) = 1

\* C23: Create was called with startTime 0 and two tags, and its request,
\* carrying the time of the clock and the tags with b before a, has been
\* sent
C23_Witness ==
    /\ pc = "Sent"
    /\ call.method = "RunService.Create"
    /\ call.args.time = 0
    /\ call.args.now = MaxTime
    /\ MemberValue(req.Body, "\"start_time\"") = ToString(MaxTime)
    /\ Len(TagsSent(req.Body)) = 2
    /\ EntrySent(TagsSent(req.Body)[1]).Key = "\"b\""

\* C24: the request of RunService.LogMetric carries a timestamp: the
\* current time when the timestamp argument is 0, the argument otherwise.
C24_TimestampZeroUsesNow ==
    InMethod("RunService.LogMetric") =>
        /\ HasMember(req.Body, "\"timestamp\"")
        /\ MemberValue(req.Body, "\"timestamp\"")
              = ToString(IF call.args.time = 0 THEN call.args.now ELSE call.args.time)

PathStep ==
    \/ pc = "Idle" /\ pc' \in {"Built", "Failed"}
    \/ pc = "Built" /\ pc' \in {"Sent", "Failed"}
    \/ pc = "Sent" /\ pc' = (IF res.StatusCode >= 400 THEN "ErrorClassified"
                                                      ELSE "SuccessClassified")
    \/ pc = "ErrorClassified" /\ pc' = "ErrorDecoded"
    \/ pc = "SuccessClassified" /\ pc' = "ResultDecoded"
    \/ pc \in {"ErrorDecoded", "ResultDecoded", "Failed"} /\ pc' = "Idle"

\* what a call has done is told by where it stands: nothing of the body is
\* decoded before the classification; after the error decoder the sink is as
\* it was and there is an error; after the result decoder there is no *Error;
\* and the outcome is the one its own sink and response give
PathState ==
    /\ pc \in {"Sent", "ErrorClassified", "SuccessClassified"} =>
          /\ sink = sink0
          /\ err = NoErr
          /\ ~res.closed
    /\ pc \in {"ErrorClassified", "ErrorDecoded"} => res.StatusCode >= 400
    /\ pc \in {"SuccessClassified", "ResultDecoded"} => res.StatusCode < 400
    /\ pc = "ErrorDecoded" =>
          /\ err # NoErr
          /\ err.kind = "Error"
          /\ sink = sink0
          /\ \E c \in Consumed(res.Body) :
                \E e \in {DecodeErrorBody(res.StatusCode, res.Body, c)} :
                    /\ err.StatusCode = e.StatusCode
                    /\ err.ErrorCode = e.ErrorCode
                    /\ err.Message = e.Message
    /\ pc = "ResultDecoded" =>
          /\ err.kind # "Error"
          /\ \E r \in {DecodeResultBody(sink0, res.Body)} : sink = r.sink /\ err = r.err
    /\ pc = "Idle" => (call = NoCall /\ res = NoRes /\ err = NoErr /\ req = NoReq)

\* C26: a call of Do moves only along Built, Sent, ErrorClassified,
\* ErrorDecoded or Built, Sent, SuccessClassified, ResultDecoded; it is
\* classified once, by its status, before anything of the body is decoded;
\* it runs one decoder, never both; ErrorDecoded ends with an error; and
\* what it does is given by its own arguments and response, whatever the
\* calls before it returned.
C26_OnePathPerCall == [][PathStep]_vars /\ []PathState

\* C26: a call that was given a sink holding a value has gone through the
\* error classification and the error decoder
C26_Witness ==
    /\ pc = "ErrorDecoded"
    /\ res.StatusCode = 502
    /\ res.Body # <<>>
    /\ sink0 = StructSink(<<"old">>)
    /\ err.kind = "Error"

\* C27: the body is open from the response until a decoder has read it, so
\* nothing is read from a closed body: a writer that takes what it is given
\* holds the whole body of a success response, a struct holds the field the
\* body carries, and the error of a failure carries the message of its body.
C27_ReadBeforeClose ==
    /\ pc \in {"Sent", "ErrorClassified", "SuccessClassified"} => ~res.closed
    /\ (pc = "ResultDecoded" /\ sink0 = WriterSink(FALSE)) => sink.written = res.Body
    /\ (pc = "ResultDecoded" /\ sink0.kind = "Struct"
        /\ res.Body = <<LBrace, KExperimentID, Colon, SNotFound, RBrace>>) =>
            sink.val.ExperimentID = <<"not found">>
    /\ (pc = "ErrorDecoded"
        /\ res.Body = <<LBrace, KMessage, Colon, SNotFound, RBrace>>) =>
            err.Message = <<"not found">>

\* C27: a body that is not empty has been copied to the writer and is closed
C27_Witness ==
    /\ pc = "ResultDecoded"
    /\ res.closed
    /\ res.Body = <<LBrace, KExperimentID, Colon, SNotFound, RBrace>>
    /\ sink0 = WriterSink(FALSE)
    /\ sink.written = res.Body

\* C28: the request of a method has a body unless the payload the method
\* hands to Do is the untyped nil; a search or a listing called with a nil
\* options pointer sends a body, the JSON value null.
C28_NilPointerSendsNull ==
    pc # "Idle" =>
        /\ req.HasBody <=> call.body # NilBody
        /\ call.args.nilopts =>
              /\ call.method \in {"RunService.Search", "ArtifactsService.List"}
              /\ req.HasBody
              /\ req.Body = <<NullTok>>
              /\ req.ContentType = "application/json"

\* C28: ArtifactsService.List was called with nil options and its request,
\* with the body null, has been sent
C28_Witness ==
    /\ pc = "Sent"
    /\ call.method = "ArtifactsService.List"
    /\ call.args.nilopts
    /\ req.HasBody
    /\ req.Body = <<NullTok>>

\* the fields the getters unwrap
WrapperKeys == {KExperiment, KRun, KInfo}

\* C29: when Do has succeeded on a body that is empty or has no member
\* named as the field the method unwraps, a getter returns a nil result and
\* a nil error; a search or a listing returns a result that is not nil, and
\* on a body that is empty or an empty object one that holds the zero value.
C29_NilResultNilError ==
    [][(pc = "ResultDecoded" /\ pc' = "Idle" /\ err = NoErr /\ sink0.kind = "Struct") =>
          /\ (sink0.typ \in WrapperKeys /\ ~HasMember(res.Body, sink0.typ)) =>
                result' = [nil |-> TRUE, err |-> NoErr]
          /\ sink0.typ = "Search" =>
                /\ ~result'.nil
                /\ result'.err = NoErr
                /\ res.Body \in {<<>>, <<LBrace, RBrace>>} => result'.val = SearchSink]_vars

\* C29: a method has returned a nil result together with a nil error
C29_Witness ==
    /\ pc = "Idle"
    /\ result = [nil |-> TRUE, err |-> NoErr]

\* C30: the URL requested by a method of LoggedModelService has as its path
\* the API root followed by the path the method formatted, logged-models/,
\* the model id and the method's suffix, and no query and no fragment but
\* the query made of the method's params.
C30_LoggedModelPath ==
    pc = "Built" =>
        /\ HasBasePrefix(u, baseURL)
        /\ JoinPath(u.Path) = JoinPath(baseURL.Path) \o Str(call.path)
        /\ u.RawQuery = (IF call.params.nil THEN "" ELSE Encode(call.params.pairs))
        /\ ~u.ForceQuery
        /\ u.Fragment = ""

====
